---------------------------- MODULE Spec2Model ----------------------------
(***************************************************************************)
(* Model of functions/src/wmata.ts of dc-metro-google-action: the three    *)
(* exported operations fetchIncidents, fetchTrainTimetable and             *)
(* fetchBusTimetable.  A behaviour is one invocation of one of them, and   *)
(* the variables are that invocation's parameters, constants and lets; the *)
(* module keeps no variable between invocations (rootUrl and wmataApiKey,  *)
(* lines 11-12, are constants), so the steps other invocations take while  *)
(* this one is suspended change nothing it reads.                          *)
(*                                                                         *)
(* Every await is a point of suspension.  A fetch is three steps: the      *)
(* request is sent, the fetch promise settles and response.json() is       *)
(* called, the json promise settles and its value is assigned.  The WMATA  *)
(* feeds are the environment: a fetch may reject, a body may fail to       *)
(* parse, and a parsed body is drawn from a bounded set.  The helpers      *)
(* imported from ./util are not part of the sources; they are modelled     *)
(* from sections 4.1-4.3 of the specification, and where station           *)
(* resolution is examined on its own their answers are inputs.             *)
(*                                                                         *)
(* Strings the code takes apart (station names, stop ids) are sequences of *)
(* one-character strings; strings it only compares are TLA+ strings.       *)
(***************************************************************************)
EXTENDS Integers, Sequences, FiniteSets, TLC

VARIABLES
    op,                 \* the exported operation that was called
    pc,                 \* position of the running operation
    station,            \* fetchTrainTimetable's argument
    stop,               \* fetchBusTimetable's argument
    transport,          \* fetchIncidents' argument
    stations,           \* const stations        (line 49)
    stationName,        \* const stationName     (line 54)
    stationData,        \* let stationData       (lines 55-59)
    predictionObj,      \* const predictionObj   (lines 69, 84, 148)
    predictionObjMulti, \* const predictionObjMulti (line 82)
    predictionData,     \* const predictionData  (line 91)
    lines,              \* const lines           (lines 101-117)
    incidentData,       \* const incidentData    (lines 119, 150)
    awaited,            \* the value the pending await resumes with
    result,             \* what the called operation's promise settled with
    calls,              \* the requests sent to the feeds, in order
    searches,           \* the calls of the two search helpers, with their answers
    failures,           \* the external calls that failed in this query
    feedPrimary,        \* Trains as the feed delivered them for Code
    feedSecondary       \* Trains as the feed delivered them for StationTogether1

vars == <<op, pc, station, stop, transport, stations, stationName, stationData,
          predictionObj, predictionObjMulti, predictionData, lines,
          incidentData, awaited, result, calls, searches, failures,
          feedPrimary, feedSecondary>>

---------------------------------------------------------------------------
(* Bounds of the model.                                                    *)

MaxStations == 2        \* length of the station reference list (Spec)
MaxTrains == 1          \* length of one platform's prediction list (Spec)
MaxIncidents == 1       \* length of the incident feed (Spec)
MaxNameLen == 2         \* length of a station name or query (SpecMatcher)
MaxMatcherStations == 2 \* length of the station reference list (SpecMatcher)
MaxMergeTrains == 2     \* length of one platform's prediction list (SpecMerger)

---------------------------------------------------------------------------
(* JavaScript values.                                                      *)

JsNull == [tag |-> "null"]
JsUndefined == [tag |-> "undefined"]
JsFalse == [tag |-> "false"]
JsZero == [tag |-> "zero"]
JsNaN == [tag |-> "NaN"]
JsEmptyString == [tag |-> "empty string"]
EmptyArray == [tag |-> "array", items |-> <<>>]
Thrown == [tag |-> "thrown"]
Pending == [tag |-> "pending"]
\* The values a condition takes for false.
FalsyValues == {JsUndefined, JsNull, JsFalse, JsZero, JsNaN, JsEmptyString}
NullCode == "<null>"            \* a line code key holding null
UndefinedValue == "<undefined>" \* the value of a key the record does not have

\* All sequences over S of length lo..hi.
SeqsBetween(S, lo, hi) == UNION {[1..n -> S] : n \in lo..hi}

RECURSIVE SelectSeqBy(_, _)
\* Array.prototype.filter with the predicate given as the set of kept values.
SelectSeqBy(s, keep) ==
    IF s = <<>> THEN <<>>
    ELSE (IF Head(s) \in keep THEN <<Head(s)>> ELSE <<>>)
         \o SelectSeqBy(Tail(s), keep)

Range(s) == {s[i] : i \in 1..Len(s)}

\* How many times e occurs in s.
Count(e, s) == Cardinality({i \in 1..Len(s) : s[i] = e})

---------------------------------------------------------------------------
(* Strings as character sequences.                                         *)

UpperCase == <<"A", "B", "C", "D", "E", "F", "G", "H", "I", "J", "K", "L", "M",
               "N", "O", "P", "Q", "R", "S", "T", "U", "V", "W", "X", "Y", "Z">>
LowerCase == <<"a", "b", "c", "d", "e", "f", "g", "h", "i", "j", "k", "l", "m",
               "n", "o", "p", "q", "r", "s", "t", "u", "v", "w", "x", "y", "z">>

LowerChar(c) ==
    IF \E i \in 1..Len(UpperCase) : UpperCase[i] = c
    THEN LowerCase[CHOOSE i \in 1..Len(UpperCase) : UpperCase[i] = c]
    ELSE c

\* String.prototype.toLowerCase
ToLowerCase(s) == [i \in 1..Len(s) |-> LowerChar(s[i])]

\* String.prototype.includes: needle occurs in hay as a contiguous substring.
Includes(hay, needle) ==
    \E i \in 0..(Len(hay) - Len(needle)) :
        \A j \in 1..Len(needle) : hay[i + j] = needle[j]

Digits == {"0", "1", "2", "3", "4", "5", "6", "7", "8", "9"}

\* stop.replace(/\D/g, '')
SanitizeStopId(s) == SelectSeqBy(s, Digits)

---------------------------------------------------------------------------
(* The helpers imported from ./util (lines 3-9), modelled from sections    *)
(* 4.1, 4.2 and 4.3 of the specification.                                  *)

TRAIN == "train"    \* serviceTypeEnum.TRAIN
BUS == "bus"        \* serviceTypeEnum.BUS

\* Section 4.1: a record matches when its lower-cased name contains the query
\* or the query contains it.  The query is compared as the caller passes it.
PartialMatch(query, rec) ==
    \/ Includes(ToLowerCase(rec.Name), query)
    \/ Includes(query, ToLowerCase(rec.Name))

\* Section 4.1: the first matching record in reference-data order.
stationPartialSearch(query, list) ==
    LET hits == {i \in 1..Len(list) : PartialMatch(query, list[i])}
    IN  IF hits = {} THEN JsUndefined
        ELSE list[CHOOSE i \in hits : \A j \in hits : i <= j]

\* Characters two strings share, counted with multiplicity.
CommonChars(a, b) ==
    LET chars == Range(a) \cup Range(b)
        m(c) == IF Count(c, a) <= Count(c, b) THEN Count(c, a) ELSE Count(c, b)
        RECURSIVE Sum(_)
        Sum(S) == IF S = {} THEN 0
                  ELSE LET c == CHOOSE x \in S : TRUE IN m(c) + Sum(S \ {c})
    IN  Sum(chars)

\* Section 4.1: a character-level similarity in percent that ignores order.
Similarity(a, b) ==
    IF Len(a) + Len(b) = 0 THEN 100
    ELSE (200 * CommonChars(a, b)) \div (Len(a) + Len(b))

\* Section 4.1: the minimum similarity a fuzzy match must reach.
FuzzyThreshold == 60

\* Section 4.1: the highest-scoring record that clears the threshold, the
\* first one at equal top score.
stationFuzzySearch(query, list) ==
    LET score(i) == Similarity(query, ToLowerCase(list[i].Name))
        ok == {i \in 1..Len(list) : score(i) >= FuzzyThreshold}
        best == {i \in ok : \A j \in ok : score(j) <= score(i)}
    IN  IF ok = {} THEN JsUndefined
        ELSE list[CHOOSE i \in best : \A j \in best : i <= j]

\* Section 4.2: the minutes field read as a number.
ParseMinutes(m) ==
    CASE m = "1" -> 1 [] m = "2" -> 2 [] m = "5" -> 5 [] m = "10" -> 10
      [] OTHER -> 0

\* Section 4.2: boarding before arriving before any numeric minute value.
MinRank(m) ==
    CASE m = "BRD" -> -2 [] m = "ARR" -> -1 [] OTHER -> ParseMinutes(m)

\* e placed behind every entry of the sorted list s that is not later than e.
InsertSorted(s, e) ==
    LET k == Cardinality({i \in 1..Len(s) : MinRank(s[i].Min) <= MinRank(e.Min)})
    IN  SubSeq(s, 1, k) \o <<e>> \o SubSeq(s, k + 1, Len(s))

RECURSIVE sortPredictions(_)
\* Section 4.2: ascending by arrival, ties keeping their input order.
sortPredictions(trains) ==
    IF trains = <<>> THEN <<>>
    ELSE InsertSorted(sortPredictions(SubSeq(trains, 1, Len(trains) - 1)),
                      trains[Len(trains)])

\* The incident records of a fetchIncidents result: those of the parsed
\* payload, none for the empty array.
IncidentRecords(data) == IF data.tag = "json" THEN data.Incidents ELSE <<>>

RECURSIVE RelevantFrom(_, _)
RelevantFrom(ids, incs) ==
    IF incs = <<>> THEN <<>>
    ELSE (IF Range(Head(incs).LinesAffected) \cap ids # {} THEN <<Head(incs)>>
          ELSE <<>>) \o RelevantFrom(ids, Tail(incs))

\* Section 4.3: the incidents whose affected lines share a code with the
\* requested identifiers, in feed order.
getRelevantIncidents(lineIds, data) ==
    RelevantFrom(Range(lineIds), IncidentRecords(data))

---------------------------------------------------------------------------
(* The feeds: what the environment can deliver.                            *)

Station(code, name, l1, l2, l3, l4, together) ==
    [Code |-> code, Name |-> name, LineCode1 |-> l1, LineCode2 |-> l2,
     LineCode3 |-> l3, LineCode4 |-> l4, StationTogether1 |-> together]

\* Spec: a reference pool after the WMATA list.  Metro Center has two
\* platforms with one name; Pentagon's name is part of Pentagon City's.
MetroCenterA == Station("A01", <<"M", "c">>, "RD", NullCode, NullCode, NullCode, "C01")
MetroCenterC == Station("C01", <<"M", "c">>, "BL", "OR", "SV", NullCode, "A01")
Pentagon == Station("C07", <<"P", "n">>, "BL", "YL", NullCode, NullCode, "")
PentagonCity == Station("C08", <<"P", "n", "C">>, "BL", NullCode, NullCode, NullCode, "")
StationPool == {MetroCenterA, MetroCenterC, Pentagon, PentagonCity}

\* Lists without repeated records.
DistinctSeqs(S, hi) ==
    {s \in SeqsBetween(S, 0, hi) : \A i, j \in 1..Len(s) : s[i] = s[j] => i = j}

StationLists == DistinctSeqs(StationPool, MaxStations)
StationQueries == {<<"M", "c">>, <<"P", "n", "C">>, <<"c", "M">>, <<"z">>}

Train(line, dest, min) == [Line |-> line, Destination |-> dest, Min |-> min]
TrainPool == {Train("RD", "Glenmont", "BRD"), Train("No", "ssenger", "ARR"),
              Train("BL", "Largo", "5")}
TrainLists == SeqsBetween(TrainPool, 0, MaxTrains)

Incident(affected, text) == [LinesAffected |-> affected, Description |-> text]
IncidentPool == {Incident(<<"RD", "OR">>, "delay"), Incident(<<"YL">>, "single tracking")}
IncidentLists == SeqsBetween(IncidentPool, 0, MaxIncidents)

StopQueries == {<<"1", "2">>, <<"#", "1", "-", "2">>, <<"s", "t", "o", "p">>}
BusPayloads == {[StopName |-> "K St", Predictions |-> <<>>],
                [StopName |-> "K St", Predictions |-> <<[RouteID |-> "32", Minutes |-> 4]>>]}
Transports == {TRAIN, BUS, "ferry"}

\* SpecMatcher: every reference list of up to MaxMatcherStations records
\* whose names are the strings over NameChars of up to MaxNameLen characters,
\* and every query over those characters and their lower-case forms.
NameChars == {"a", "B"}
QueryChars == NameChars \cup {LowerChar(c) : c \in NameChars}
MatcherNames == SeqsBetween(NameChars, 1, MaxNameLen)
MatcherQueries == SeqsBetween(QueryChars, 0, MaxNameLen)
MatcherCodes == <<"S1", "S2", "S3", "S4">>
MatcherLists ==
    {[i \in 1..Len(names) |->
        Station(MatcherCodes[i], names[i], "RD", NullCode, NullCode, NullCode, "")] :
     names \in SeqsBetween(MatcherNames, 0, MaxMatcherStations)}

\* SpecMerger: one reference list with an unpaired and a paired station, and
\* prediction lists over entries that tie, that carry each sentinel value
\* alone, and that miss a sentinel value by case only.
MergerStationLists == {<<Pentagon, MetroCenterA>>}
MergerQueries == {<<"P", "n">>, <<"M", "c">>}
MergeTrainPool ==
    {Train("RD", "Glenmont", "5"), Train("NO", "train", "5"),
     Train("RD", "Shady Grove", "BRD"), Train("No", "Largo", "ARR"),
     Train("None", "Glenmont", "10"), Train("RD", "ssenger", "1"),
     Train("--", "Train", "2")}
MergeTrainLists == SeqsBetween(MergeTrainPool, 0, MaxMergeTrains)

\* How a fetch followed by response.json() can end: both promises resolve,
\* the fetch promise rejects, the json promise rejects.
Outcomes == {"ok", "network", "parse"}

---------------------------------------------------------------------------
(* wmata.ts: the pure parts of the three operations.                       *)

\* The names wmata.ts can refer to: its imports (lines 1-9) and its own
\* exports.  A call of any other name throws a ReferenceError.
DeclaredNames ==
    {"functions", "fetch", "stationFuzzySearch", "stationPartialSearch",
     "getRelevantIncidents", "sortPredictions", "serviceTypeEnum", "rootUrl",
     "wmataApiKey", "fetchIncidents", "fetchTrainTimetable", "fetchBusTimetable"}

\* obj.key: the value of a key, undefined for a key the object does not have.
GetKey(obj, key) == IF key \in DOMAIN obj THEN obj[key] ELSE UndefinedValue

\* Lines 22-28: the path of the incident feed for a transport.
IncidentsPath(t) ==
    IF t = "train" THEN "Incidents" ELSE IF t = "bus" THEN "BusIncidents" ELSE ""

\* fetchIncidents without its catch block: the error reaches the caller.
IncidentsRethrow == Thrown

\* Lines 33-35: what fetchIncidents' catch block returns.
IncidentsCatch == EmptyArray

\* fetchTrainTimetable without its catch block: the error reaches the caller.
TrainRethrow == Thrown

\* Lines 130-132: what fetchTrainTimetable's catch block returns.
TrainCatch == EmptyArray

\* Lines 162-164: what fetchBusTimetable's catch block returns.
BusCatch == EmptyArray

\* The else branch returning the same empty array as the catch block.
NotFoundAsEmptyArray == EmptyArray

\* Lines 127-129: what fetchTrainTimetable returns when no station was found.
NotFoundResult == JsNull

\* Line 54.
StationNameOf(st) == ToLowerCase(st)

\* The fallback dropped: the partial search's answer is final.
NeverFuzzy(found) == FALSE

\* Line 57: if (!stationData)
NeedsFuzzy(found) == found \in FalsyValues

\* Line 61: if (stationData)
StationFound(found) == found \notin FalsyValues

\* A call of a search helper: its name, the query it was given, its answer.
Search(helper, query, answer) ==
    [helper |-> helper, query |-> query, answer |-> answer]

\* The paired platform never looked at.
NeverPaired(s) == FALSE

\* Line 71: if (stationData.StationTogether1)
HasPairedPlatform(s) == s.StationTogether1 \notin {"", NullCode, UndefinedValue}

\* Lines 84-86.
MergeTrains(primary, secondary) == sortPredictions(primary \o secondary)

\* The predicate without its test for the line 'No'.
IsPassengerTrainWithoutNo(item) ==
    /\ item.Line # "None"
    /\ item.Destination # "ssenger" /\ item.Destination # "Train"

\* Lines 92-95: the filter's predicate.
IsPassengerTrain(item) ==
    /\ item.Line # "None"
    /\ item.Line # "No"
    /\ item.Destination # "ssenger" /\ item.Destination # "Train"

\* Nothing filtered out.
FilterNothing(trains) == trains

\* Lines 91-96.
FilterTrains(trains) == SelectSeq(trains, IsPassengerTrain)

\* Lines 101-117.
LineCodes(s) ==
    (IF s.LineCode1 # NullCode THEN <<GetKey(s, "LineCode1")>> ELSE <<>>)
    \o (IF s.LineCode2 # NullCode THEN <<GetKey(s, "lineCode2")>> ELSE <<>>)
    \o (IF s.LineCode3 # NullCode THEN <<GetKey(s, "LineCode3")>> ELSE <<>>)
    \o (IF s.LineCode4 # NullCode THEN <<GetKey(s, "LineCode4")>> ELSE <<>>)

\* Lines 122-126.
TrainResult(s, predictions, incidents) ==
    [tag |-> "object", stationName |-> s.Name, predictions |-> predictions,
     incidents |-> incidents]

\* Lines 157-161.
BusResult(obj, incidents) ==
    [tag |-> "object", stopName |-> GetKey(obj, "StopName"),
     predictions |-> GetKey(obj, "Predictions"), incidents |-> incidents]

\* A parsed prediction payload, and the payload the feed sends instead of
\* predictions when it refuses the request (no Trains key).
TrainsPayload(trains) == [tag |-> "json", Trains |-> trains]
ErrorPayload == [tag |-> "json", statusCode |-> "401"]
HasTrains(obj) == "Trains" \in DOMAIN obj

Call(feed, key) == [feed |-> feed, key |-> key]
Failure(call, kind) == [call |-> call, kind |-> kind]
FailureKinds == Outcomes \ {"ok"}

---------------------------------------------------------------------------
(* The state machine.                                                      *)

Init ==
    /\ op = "none" /\ pc = "idle"
    /\ station = <<>> /\ stop = <<>> /\ transport = ""
    /\ stations = <<>> /\ stationName = <<>> /\ stationData = JsUndefined
    /\ predictionObj = JsUndefined /\ predictionObjMulti = JsUndefined
    /\ predictionData = <<>> /\ lines = <<>> /\ incidentData = JsUndefined
    /\ awaited = JsUndefined
    /\ result = Pending /\ calls = <<>> /\ searches = <<>> /\ failures = {}
    /\ feedPrimary = <<>> /\ feedSecondary = <<>>

\* fetchTrainTimetable(station) is called (line 43).
CallTrain(Queries) ==
    /\ pc = "idle"
    /\ \E q \in Queries : station' = q
    /\ op' = "train" /\ pc' = "t_stations"
    /\ UNCHANGED <<stop, transport, stations, stationName, stationData,
                   predictionObj, predictionObjMulti, predictionData, lines,
                   incidentData, awaited, result, calls, searches, failures,
                   feedPrimary, feedSecondary>>

\* fetchBusTimetable(stop) is called (line 140).
CallBus ==
    /\ pc = "idle"
    /\ \E s \in StopQueries : stop' = s
    /\ op' = "bus" /\ pc' = "b_pred"
    /\ UNCHANGED <<station, transport, stations, stationName, stationData,
                   predictionObj, predictionObjMulti, predictionData, lines,
                   incidentData, awaited, result, calls, searches, failures,
                   feedPrimary, feedSecondary>>

\* fetchIncidents(transport) is called on its own (line 19).
CallIncidents ==
    /\ pc = "idle"
    /\ \E t \in Transports : transport' = t
    /\ op' = "incidents" /\ pc' = "i_fetch"
    /\ UNCHANGED <<station, stop, stations, stationName, stationData,
                   predictionObj, predictionObjMulti, predictionData, lines,
                   incidentData, awaited, result, calls, searches, failures,
                   feedPrimary, feedSecondary>>

\* Lines 45-48: the request for the station reference list is sent.
FetchStations ==
    /\ pc = "t_stations"
    /\ calls' = Append(calls, Call("stations", ""))
    /\ pc' = "t_stations_sent"
    /\ UNCHANGED <<op, station, stop, transport, stations, stationName,
                   stationData, predictionObj, predictionObjMulti,
                   predictionData, lines, incidentData, awaited, result,
                   searches, failures, feedPrimary, feedSecondary>>

\* Lines 45-49: the fetch promise settles; stationResponse.json() is called,
\* or the rejection reaches the catch block.
StationResponse ==
    /\ pc = "t_stations_sent"
    /\ \/ /\ pc' = "t_stations_json"
          /\ UNCHANGED <<result, failures>>
       \/ /\ failures' = failures \cup {Failure("stations", "network")}
          /\ result' = TrainCatch /\ pc' = "done"
    /\ UNCHANGED <<op, station, stop, transport, stations, stationName,
                   stationData, predictionObj, predictionObjMulti,
                   predictionData, lines, incidentData, awaited, calls,
                   searches, feedPrimary, feedSecondary>>

\* Line 49: the json promise settles; stations is assigned, or the rejection
\* reaches the catch block.
StationsJson(Lists) ==
    /\ pc = "t_stations_json"
    /\ \/ /\ \E l \in Lists : stations' = l
          /\ pc' = "t_resolve"
          /\ UNCHANGED <<result, failures>>
       \/ /\ failures' = failures \cup {Failure("stations", "parse")}
          /\ result' = TrainCatch /\ pc' = "done"
          /\ UNCHANGED stations
    /\ UNCHANGED <<op, station, stop, transport, stationName, stationData,
                   predictionObj, predictionObjMulti, predictionData, lines,
                   incidentData, awaited, calls, searches, feedPrimary,
                   feedSecondary>>

\* Lines 54-61 and 127-129: the station is resolved, or null is returned.
\* Partial and Fuzzy are the answers the two helpers can give to the query.
ResolveStation(Partial, Fuzzy) ==
    /\ pc = "t_resolve"
    /\ stationName' = StationNameOf(station)
    /\ \E p \in Partial :
          LET first == Search("stationPartialSearch", stationName', p)
          IN  IF NeedsFuzzy(p)
              THEN \E f \in Fuzzy :
                      /\ stationData' = f
                      /\ searches' = <<first, Search("stationFuzzySearch",
                                                     stationName', f)>>
              ELSE /\ stationData' = p
                   /\ searches' = <<first>>
    /\ IF StationFound(stationData')
       THEN result' = result /\ pc' = "t_pred"
       ELSE result' = NotFoundResult /\ pc' = "done"
    /\ UNCHANGED <<op, station, stop, transport, stations, predictionObj,
                   predictionObjMulti, predictionData, lines, incidentData,
                   awaited, calls, failures, feedPrimary, feedSecondary>>

\* The helpers' answers as section 4.1 of the specification describes them.
PartialBySpec == {stationPartialSearch(StationNameOf(station), stations)}
FuzzyBySpec == {stationFuzzySearch(StationNameOf(station), stations)}

\* Lines 62-67: the request for the resolved code's predictions is sent.
FetchPrediction ==
    /\ pc = "t_pred"
    /\ calls' = Append(calls, Call("prediction", stationData.Code))
    /\ pc' = "t_pred_sent"
    /\ UNCHANGED <<op, station, stop, transport, stations, stationName,
                   stationData, predictionObj, predictionObjMulti,
                   predictionData, lines, incidentData, awaited, result,
                   searches, failures, feedPrimary, feedSecondary>>

\* Lines 62-69: the fetch promise settles; predictionResponse.json() is
\* called, or the rejection reaches the catch block.
PredictionResponse ==
    /\ pc = "t_pred_sent"
    /\ \/ /\ pc' = "t_pred_json"
          /\ UNCHANGED <<result, failures>>
       \/ /\ failures' = failures \cup {Failure("prediction", "network")}
          /\ result' = TrainCatch /\ pc' = "done"
    /\ UNCHANGED <<op, station, stop, transport, stations, stationName,
                   stationData, predictionObj, predictionObjMulti,
                   predictionData, lines, incidentData, awaited, calls,
                   searches, feedPrimary, feedSecondary>>

\* Lines 69-71: the json promise settles; predictionObj is assigned and the
\* paired platform is tested for, or the rejection reaches the catch block.
PredictionJson(Lists) ==
    /\ pc = "t_pred_json"
    /\ \/ /\ \E l \in Lists :
                predictionObj' = TrainsPayload(l) /\ feedPrimary' = l
          /\ pc' = IF HasPairedPlatform(stationData) THEN "t_multi" ELSE "t_filter"
          /\ UNCHANGED <<result, failures>>
       \/ /\ predictionObj' = ErrorPayload
          /\ failures' = failures \cup {Failure("prediction", "payload")}
          /\ pc' = IF HasPairedPlatform(stationData) THEN "t_multi" ELSE "t_filter"
          /\ UNCHANGED <<result, feedPrimary>>
       \/ /\ failures' = failures \cup {Failure("prediction", "parse")}
          /\ result' = TrainCatch /\ pc' = "done"
          /\ UNCHANGED <<predictionObj, feedPrimary>>
    /\ UNCHANGED <<op, station, stop, transport, stations, stationName,
                   stationData, predictionObjMulti, predictionData, lines,
                   incidentData, awaited, calls, searches, feedSecondary>>

\* Lines 75-80: the request for the paired platform's predictions is sent.
FetchPredictionMulti ==
    /\ pc = "t_multi"
    /\ calls' = Append(calls, Call("prediction", stationData.StationTogether1))
    /\ pc' = "t_multi_sent"
    /\ UNCHANGED <<op, station, stop, transport, stations, stationName,
                   stationData, predictionObj, predictionObjMulti,
                   predictionData, lines, incidentData, awaited, result,
                   searches, failures, feedPrimary, feedSecondary>>

\* Lines 75-82: the fetch promise settles; predictionResponseMulti.json() is
\* called, or the rejection reaches the catch block.
PredictionResponseMulti ==
    /\ pc = "t_multi_sent"
    /\ \/ /\ pc' = "t_multi_json"
          /\ UNCHANGED <<result, failures>>
       \/ /\ failures' = failures \cup {Failure("predictionMulti", "network")}
          /\ result' = TrainCatch /\ pc' = "done"
    /\ UNCHANGED <<op, station, stop, transport, stations, stationName,
                   stationData, predictionObj, predictionObjMulti,
                   predictionData, lines, incidentData, awaited, calls,
                   searches, feedPrimary, feedSecondary>>

\* Lines 82-86: the json promise settles; predictionObjMulti is assigned and
\* the two lists are merged.  A payload without Trains makes the merge
\* (primary) or the later filter (secondary, an undefined element) throw a
\* TypeError.
PredictionMultiJson(Lists) ==
    /\ pc = "t_multi_json"
    /\ \/ /\ \E l \in Lists :
                /\ predictionObjMulti' = TrainsPayload(l)
                /\ feedSecondary' = l
                /\ IF HasTrains(predictionObj)
                   THEN /\ predictionObj' =
                            TrainsPayload(MergeTrains(predictionObj.Trains, l))
                        /\ pc' = "t_filter" /\ result' = result
                   ELSE /\ predictionObj' = predictionObj
                        /\ pc' = "done" /\ result' = TrainCatch
          /\ UNCHANGED failures
       \/ /\ predictionObjMulti' = ErrorPayload
          /\ failures' = failures \cup {Failure("predictionMulti", "payload")}
          /\ result' = TrainCatch /\ pc' = "done"
          /\ UNCHANGED <<predictionObj, feedSecondary>>
       \/ /\ failures' = failures \cup {Failure("predictionMulti", "parse")}
          /\ result' = TrainCatch /\ pc' = "done"
          /\ UNCHANGED <<predictionObj, predictionObjMulti, feedSecondary>>
    /\ UNCHANGED <<op, station, stop, transport, stations, stationName,
                   stationData, predictionData, lines, incidentData,
                   awaited, calls, searches, feedPrimary>>

\* Lines 91-96: the sentinel filter is applied and its value awaited.
FilterPredictions ==
    /\ pc = "t_filter"
    /\ IF HasTrains(predictionObj)
       THEN /\ awaited' = FilterTrains(predictionObj.Trains)
            /\ pc' = "t_lines" /\ result' = result
       ELSE /\ result' = TrainCatch /\ pc' = "done"
            /\ awaited' = awaited
    /\ UNCHANGED <<op, station, stop, transport, stations, stationName,
                   stationData, predictionObj, predictionObjMulti,
                   predictionData, lines, incidentData, calls, searches,
                   failures, feedPrimary, feedSecondary>>

\* Lines 91 and 101-117: the await resumes; predictionData is assigned and
\* the line codes are collected.
CollectLineCodes ==
    /\ pc = "t_lines"
    /\ predictionData' = awaited
    /\ lines' = LineCodes(stationData)
    /\ awaited' = JsUndefined
    /\ pc' = "t_incidents"
    /\ UNCHANGED <<op, station, stop, transport, stations, stationName,
                   stationData, predictionObj, predictionObjMulti,
                   incidentData, result, calls, searches, failures,
                   feedPrimary, feedSecondary>>

\* The transport fetchIncidents runs with: lines 119 and 150, or its caller's.
IncidentsTransport ==
    IF op = "train" THEN TRAIN ELSE IF op = "bus" THEN BUS ELSE transport

\* Lines 21-30: fetchIncidents, called on its own or at lines 119 and 150,
\* sends its request.
FetchIncidents ==
    /\ pc \in {"i_fetch", "t_incidents", "b_incidents"}
    /\ calls' = Append(calls, Call("incidents", IncidentsPath(IncidentsTransport)))
    /\ pc' = "i_sent"
    /\ UNCHANGED <<op, station, stop, transport, stations, stationName,
                   stationData, predictionObj, predictionObjMulti,
                   predictionData, lines, incidentData, awaited, result,
                   searches, failures, feedPrimary, feedSecondary>>

\* Lines 21-35: the fetch promise settles; incidentResponse.json() is called,
\* or the catch block makes fetchIncidents return.
IncidentResponse ==
    /\ pc = "i_sent"
    /\ \/ /\ pc' = "i_json"
          /\ UNCHANGED <<awaited, failures>>
       \/ /\ failures' = failures \cup {Failure("incidents", "network")}
          /\ awaited' = IncidentsCatch /\ pc' = "i_return"
    /\ UNCHANGED <<op, station, stop, transport, stations, stationName,
                   stationData, predictionObj, predictionObjMulti,
                   predictionData, lines, incidentData, result, calls,
                   searches, feedPrimary, feedSecondary>>

\* Lines 32-35: the json promise settles; fetchIncidents returns its value,
\* or what the catch block returns.
IncidentJson(Lists) ==
    /\ pc = "i_json"
    /\ \/ /\ \E l \in Lists : awaited' = [tag |-> "json", Incidents |-> l]
          /\ UNCHANGED failures
       \/ /\ failures' = failures \cup {Failure("incidents", "parse")}
          /\ awaited' = IncidentsCatch
    /\ pc' = "i_return"
    /\ UNCHANGED <<op, station, stop, transport, stations, stationName,
                   stationData, predictionObj, predictionObjMulti,
                   predictionData, lines, incidentData, result, calls,
                   searches, feedPrimary, feedSecondary>>

\* What the caller does with the settled fetchIncidents promise r.
AfterIncidents(r) ==
    IF op = "incidents"
    THEN result' = r /\ pc' = "done" /\ incidentData' = incidentData
    ELSE IF r = Thrown
    THEN /\ result' = (IF op = "train" THEN TrainCatch ELSE BusCatch)
         /\ pc' = "done" /\ incidentData' = incidentData
    ELSE /\ incidentData' = r /\ result' = result
         /\ pc' = IF op = "train" THEN "t_relevant" ELSE "b_relevant"

\* Lines 119 and 150: the caller's await of fetchIncidents resumes.
IncidentsReturned ==
    /\ pc = "i_return"
    /\ AfterIncidents(awaited)
    /\ awaited' = JsUndefined
    /\ UNCHANGED <<op, station, stop, transport, stations, stationName,
                   stationData, predictionObj, predictionObjMulti,
                   predictionData, lines, calls, searches, failures,
                   feedPrimary, feedSecondary>>

\* Line 120: getRelevantIncidents is called and its value awaited.
RelevantIncidents ==
    /\ pc = "t_relevant"
    /\ awaited' = getRelevantIncidents(lines, incidentData)
    /\ pc' = "t_return"
    /\ UNCHANGED <<op, station, stop, transport, stations, stationName,
                   stationData, predictionObj, predictionObjMulti,
                   predictionData, lines, incidentData, result, calls,
                   searches, failures, feedPrimary, feedSecondary>>

\* Lines 120-126: the await resumes and the object is returned.
ReturnTimetable ==
    /\ pc = "t_return"
    /\ result' = TrainResult(stationData, predictionData, awaited)
    /\ awaited' = JsUndefined
    /\ pc' = "done"
    /\ UNCHANGED <<op, station, stop, transport, stations, stationName,
                   stationData, predictionObj, predictionObjMulti,
                   predictionData, lines, incidentData, calls, searches,
                   failures, feedPrimary, feedSecondary>>

\* Lines 143-147: the stop id is sanitized and the request for the stop's
\* predictions is sent.
BusFetchPrediction ==
    /\ pc = "b_pred"
    /\ calls' = Append(calls, Call("bus", SanitizeStopId(stop)))
    /\ pc' = "b_pred_sent"
    /\ UNCHANGED <<op, station, stop, transport, stations, stationName,
                   stationData, predictionObj, predictionObjMulti,
                   predictionData, lines, incidentData, awaited, result,
                   searches, failures, feedPrimary, feedSecondary>>

\* Lines 144-148: the fetch promise settles; predictionResponse.json() is
\* called, or the rejection reaches the catch block.
BusPredictionResponse ==
    /\ pc = "b_pred_sent"
    /\ \/ /\ pc' = "b_pred_json"
          /\ UNCHANGED <<result, failures>>
       \/ /\ failures' = failures \cup {Failure("busPrediction", "network")}
          /\ result' = BusCatch /\ pc' = "done"
    /\ UNCHANGED <<op, station, stop, transport, stations, stationName,
                   stationData, predictionObj, predictionObjMulti,
                   predictionData, lines, incidentData, awaited, calls,
                   searches, feedPrimary, feedSecondary>>

\* Line 148: the json promise settles; predictionObj is assigned, or the
\* rejection reaches the catch block.
BusPredictionJson ==
    /\ pc = "b_pred_json"
    /\ \/ /\ \E p \in BusPayloads :
                predictionObj' = [tag |-> "json", StopName |-> p.StopName,
                                  Predictions |-> p.Predictions]
          /\ pc' = "b_incidents"
          /\ UNCHANGED <<result, failures>>
       \/ /\ failures' = failures \cup {Failure("busPrediction", "parse")}
          /\ result' = BusCatch /\ pc' = "done"
          /\ UNCHANGED predictionObj
    /\ UNCHANGED <<op, station, stop, transport, stations, stationName,
                   stationData, predictionObjMulti, predictionData, lines,
                   incidentData, awaited, calls, searches, feedPrimary,
                   feedSecondary>>

\* Lines 153-164: getRelevantBusIncidents() is called; the name is neither
\* imported nor defined, so the call throws and the catch block answers.
BusRelevantIncidents ==
    /\ pc = "b_relevant"
    /\ result' = IF "getRelevantBusIncidents" \in DeclaredNames
                 THEN BusResult(predictionObj, <<>>)
                 ELSE BusCatch
    /\ pc' = "done"
    /\ UNCHANGED <<op, station, stop, transport, stations, stationName,
                   stationData, predictionObj, predictionObjMulti,
                   predictionData, lines, incidentData, awaited, calls,
                   searches, failures, feedPrimary, feedSecondary>>

Next ==
    \/ CallTrain(StationQueries)
    \/ CallBus
    \/ CallIncidents
    \/ FetchStations
    \/ StationResponse
    \/ StationsJson(StationLists)
    \/ ResolveStation(PartialBySpec, FuzzyBySpec)
    \/ FetchPrediction
    \/ PredictionResponse
    \/ PredictionJson(TrainLists)
    \/ FetchPredictionMulti
    \/ PredictionResponseMulti
    \/ PredictionMultiJson(TrainLists)
    \/ FilterPredictions
    \/ CollectLineCodes
    \/ FetchIncidents
    \/ IncidentResponse
    \/ IncidentJson(IncidentLists)
    \/ IncidentsReturned
    \/ RelevantIncidents
    \/ ReturnTimetable
    \/ BusFetchPrediction
    \/ BusPredictionResponse
    \/ BusPredictionJson
    \/ BusRelevantIncidents

Spec == Init /\ [][Next]_vars

---------------------------------------------------------------------------
(* Properties of the three operations, checked under Spec.                 *)

TrainDone == op = "train" /\ pc = "done"
FetchFailed(call) == \E f \in failures : f.call = call /\ f.kind \in FailureKinds
IsPredictionCall(c) == c.feed = "prediction"
IsIncidentCall(c) == c.feed = "incidents"

\* The platform codes the prediction feed was asked for, in order.
PredictionKeys ==
    LET sent == SelectSeq(calls, IsPredictionCall)
    IN  [i \in 1..Len(sent) |-> sent[i].key]

\* What the searches answer for the query of the running rail query.
NeitherSearchFinds ==
    /\ stationPartialSearch(ToLowerCase(station), stations) = JsUndefined
    /\ stationFuzzySearch(ToLowerCase(station), stations) = JsUndefined

\* C1: when the station reference fetch succeeded and neither partial nor
\* fuzzy search finds a station, fetchTrainTimetable returns null, which is
\* not the empty array returned when an upstream fetch fails.
C1_NotFoundIsNull ==
    (TrainDone /\ ~FetchFailed("stations") /\ NeitherSearchFinds)
        => (result = JsNull /\ result # EmptyArray /\ result.tag # "array")

\* C1 witness: a finished rail query over a non-empty reference list in which
\* no station matched.
C1_Witness ==
    /\ TrainDone /\ failures = {} /\ stations # <<>>
    /\ NeitherSearchFinds /\ stationData = JsUndefined /\ result = JsNull

\* C2 as stated: whatever external call failed, the operation that was
\* called returns an empty sequence and never an error.
C2_AnyFailureGivesEmptyArray ==
    (pc = "done" /\ failures # {}) => result = EmptyArray

\* C2 amended: no operation ever propagates an error.  A failed station or
\* prediction fetch (or payload) makes fetchTrainTimetable return the empty
\* array, any failure makes fetchBusTimetable and fetchIncidents return it;
\* a failed incident fetch inside fetchTrainTimetable is answered by
\* fetchIncidents with the empty array and the rail result is still an object
\* with no incidents.
C2_NeverPropagates ==
    /\ result # Thrown
    /\ (pc = "done" /\ op \in {"bus", "incidents"} /\ failures # {})
          => result = EmptyArray
    /\ (TrainDone /\ \E f \in failures : f.call # "incidents")
          => result = EmptyArray
    /\ (TrainDone /\ failures # {} /\ \A f \in failures : f.call = "incidents")
          => /\ incidentData = EmptyArray
             /\ result.tag = "object" /\ result.incidents = <<>>

\* C2 witness: a rail query that finished with an object although its
\* incident fetch failed.
C2_Witness ==
    /\ TrainDone /\ FetchFailed("incidents") /\ result.tag = "object"
    /\ result.incidents = <<>>

\* The predictions the rail query computes from what the feed delivered.
ExpectedPredictions ==
    FilterTrains(IF HasPairedPlatform(stationData)
                 THEN MergeTrains(feedPrimary, feedSecondary)
                 ELSE feedPrimary)

\* C3 as stated: with the station resolved, a failed prediction fetch or a
\* failed incident fetch empties only its own sub-result and the result is
\* still the object carrying the station name.
C3_FailureKeepsObject ==
    (TrainDone /\ stationData # JsUndefined
       /\ (FetchFailed("prediction") \/ FetchFailed("predictionMulti")
           \/ FetchFailed("incidents")))
        => /\ result.tag = "object"
           /\ result.stationName = stationData.Name
           /\ FetchFailed("incidents") => result.incidents = <<>>
           /\ ~FetchFailed("incidents") => result.predictions = <<>>

\* C3 amended: a failed incident fetch is swallowed where it occurs: the
\* result carries the station name, the predictions computed from the
\* prediction feed and no incidents.  A failed prediction fetch is not: the
\* whole result is the empty array and the incident feed is never called.
C3_IncidentFailureOnly ==
    /\ (TrainDone /\ FetchFailed("incidents"))
          => result = TrainResult(stationData, ExpectedPredictions, <<>>)
    /\ (TrainDone /\ (FetchFailed("prediction") \/ FetchFailed("predictionMulti")))
          => /\ result = EmptyArray
             /\ SelectSeq(calls, IsIncidentCall) = <<>>

\* C3 witness: the incident fetch failed after predictions were delivered and
\* kept, and the result carries them.
C3_Witness ==
    /\ TrainDone /\ FetchFailed("incidents") /\ result.tag = "object"
    /\ result.predictions # <<>> /\ result.incidents = <<>>
    /\ result.stationName = stationData.Name

\* The station's line codes that are not null, in the order 1..4.
IsLineCode(c) == c # NullCode
NonNullLineCodes(s) ==
    SelectSeq(<<s.LineCode1, s.LineCode2, s.LineCode3, s.LineCode4>>, IsLineCode)

\* C5: the line identifiers handed to the incident relevance filter are the
\* station's non-null line codes 1 to 4, in that order, each with its value.
C5_LinesAreNonNullCodes ==
    (op = "train" /\ pc = "t_relevant") => lines = NonNullLineCodes(stationData)

\* C7: a stop query whose bus prediction fetch succeeded returns the object
\* with the stop name, the delivered predictions and no incidents.
C7_BusReturnsObject ==
    (op = "bus" /\ pc = "done" /\ ~FetchFailed("busPrediction"))
        => result = BusResult(predictionObj, <<>>)

\* C10 as stated: no prediction or incident call unless a station was
\* resolved; one prediction call for a station without a paired platform, two
\* (the code, then StationTogether1) for a station with one.
C10_OncePerPlatform ==
    /\ (op = "train" /\ stationData = JsUndefined)
          => (PredictionKeys = <<>> /\ SelectSeq(calls, IsIncidentCall) = <<>>)
    /\ (TrainDone /\ stationData # JsUndefined)
          => PredictionKeys =
                IF stationData.StationTogether1 # ""
                THEN <<stationData.Code, stationData.StationTogether1>>
                ELSE <<stationData.Code>>

\* C10 amended: as stated, except that a failed primary prediction fetch ends
\* the query after that one call, so a paired station is asked for twice only
\* when the primary fetch and its parsing did not fail.
C10_OncePerPlatformUnlessFailed ==
    /\ (op = "train" /\ stationData = JsUndefined)
          => (PredictionKeys = <<>> /\ SelectSeq(calls, IsIncidentCall) = <<>>)
    /\ (TrainDone /\ stationData # JsUndefined)
          => PredictionKeys =
                IF stationData.StationTogether1 # "" /\ ~FetchFailed("prediction")
                THEN <<stationData.Code, stationData.StationTogether1>>
                ELSE <<stationData.Code>>

\* C10 witness: a finished query for a paired station with both platforms
\* asked for, in order.
C10_Witness ==
    /\ TrainDone /\ result.tag = "object" /\ stationData.StationTogether1 # ""
    /\ PredictionKeys = <<stationData.Code, stationData.StationTogether1>>

---------------------------------------------------------------------------
(* Station resolution on its own (lines 45-61) over every small reference  *)
(* list.  The two search helpers are part of the environment here: what    *)
(* they answer is drawn, like a feed's response, and nothing is assumed of *)
(* it but that it is a record of the list they were given or a value that  *)
(* reads as false.                                                         *)

\* Line 55: what stationPartialSearch can answer.
PartialAnswers == Range(stations) \cup FalsyValues

\* Line 58: what stationFuzzySearch can answer.
FuzzyAnswers == Range(stations) \cup FalsyValues

NextMatcher ==
    \/ CallTrain(MatcherQueries)
    \/ FetchStations
    \/ StationResponse
    \/ StationsJson(MatcherLists)
    \/ ResolveStation(PartialAnswers, FuzzyAnswers)

SpecMatcher == Init /\ [][NextMatcher]_vars

Resolved == op = "train" /\ pc \in {"t_pred", "done"} /\ ~FetchFailed("stations")

---------------------------------------------------------------------------
(* The prediction merger on its own: rail queries for an unpaired and a    *)
(* paired station over every small pair of prediction lists (lines 62-96). *)

NextMerger ==
    \/ CallTrain(MergerQueries)
    \/ FetchStations
    \/ StationResponse
    \/ StationsJson(MergerStationLists)
    \/ ResolveStation(PartialBySpec, FuzzyBySpec)
    \/ FetchPrediction
    \/ PredictionResponse
    \/ PredictionJson(MergeTrainLists)
    \/ FetchPredictionMulti
    \/ PredictionResponseMulti
    \/ PredictionMultiJson(MergeTrainLists)
    \/ FilterPredictions
    \/ CollectLineCodes
    \/ FetchIncidents
    \/ IncidentResponse
    \/ IncidentJson({<<>>})
    \/ IncidentsReturned
    \/ RelevantIncidents
    \/ ReturnTimetable

SpecMerger == Init /\ [][NextMerger]_vars

\* An entry that carries none of the four sentinel values.
NotSentinel(e) ==
    /\ e.Line \notin {"None", "No"}
    /\ e.Destination \notin {"ssenger", "Train"}

Returned == TrainDone /\ result.tag = "object"

\* C4 as stated: for a station without a paired platform the returned
\* predictions are the primary list sorted ascending and then filtered,
\* whatever order the feed delivered it in.
C4_UnpairedSortedAndFiltered ==
    (Returned /\ ~HasPairedPlatform(stationData))
        => result.predictions = SelectSeq(sortPredictions(feedPrimary), NotSentinel)

\* C4 amended: for a station without a paired platform the returned
\* predictions are the primary list in the order the feed delivered it with
\* the sentinel entries removed; the list is not sorted on this path.
C4_UnpairedFilteredInFeedOrder ==
    (Returned /\ ~HasPairedPlatform(stationData))
        => result.predictions = SelectSeq(feedPrimary, NotSentinel)

\* C4 witness: an unpaired station whose feed delivered a later train before
\* an earlier one, both kept in that order.
C4_Witness ==
    /\ Returned /\ ~HasPairedPlatform(stationData)
    /\ Len(result.predictions) = 2 /\ Len(feedPrimary) = 2
    /\ MinRank(result.predictions[1].Min) > MinRank(result.predictions[2].Min)

\* C6: a delivered entry is returned exactly when its line is neither "None"
\* nor "No" and its destination neither "ssenger" nor "Train": every such
\* entry is returned as often as it was delivered, every other entry never.
C6_ExactSentinelFilter ==
    Returned =>
        \A e \in Range(feedPrimary) \cup Range(feedSecondary)
                 \cup Range(result.predictions) :
            Count(e, result.predictions) =
                IF NotSentinel(e)
                THEN Count(e, feedPrimary) + Count(e, feedSecondary)
                ELSE 0

\* C6 witness: a paired station whose platforms delivered an entry with the
\* line "No" and an entry that differs from a sentinel by case only; the
\* second is returned, the first is not.
C6_Witness ==
    /\ Returned /\ HasPairedPlatform(stationData)
    /\ \E e \in Range(feedPrimary) : e.Line = "No"
    /\ \E e \in Range(feedSecondary) : e.Line = "NO" /\ e.Destination = "train"
    /\ Len(result.predictions) = 1

=============================================================================
